---- MODULE Spec2Model ----
(***************************************************************************)
(* Model of src/cpp/main.cpp (Dye-Gradient-to-CSV): the run of main() from *)
(* the directory listing to the last group's CSV file.                     *)
(*                                                                         *)
(* Strings are sequences of one-character strings, so that the regular     *)
(* expression search of extractUniqueRPMs, the substring search of         *)
(* validateReplicates and of the loader, std::stoi and std::to_string are  *)
(* computed character by character.  Numbers written to the CSV file are   *)
(* exact rationals <<n, d>> in lowest terms (d > 0): the float and double  *)
(* roundings of the build and the six significant digits of operator<<    *)
(* are not modelled.                                                       *)
(***************************************************************************)
EXTENDS Integers, Sequences, FiniteSets, TLC

(***************************************************************************)
(* Bounds of the model.                                                    *)
(***************************************************************************)
\* longest directory listing drawn from NameUniverse
MaxFiles == 3
\* largest decoded image width (cv::Mat::cols) and height (cv::Mat::rows)
MaxCols == 3
MaxRows == 3
\* largest common width of the three images in the profile family
MaxWidth == 5

(***************************************************************************)
(* Characters and strings.                                                 *)
(***************************************************************************)
Digits == <<"0", "1", "2", "3", "4", "5", "6", "7", "8", "9">>

IsDigit(c) == \E i \in 1..Len(Digits) : Digits[i] = c

DigitVal(c) == (CHOOSE i \in 1..Len(Digits) : Digits[i] = c) - 1

\* p occurs in s starting at position i (1-based)
OccursAt(s, p, i) ==
    /\ i >= 1
    /\ i + Len(p) - 1 <= Len(s)
    /\ \A j \in 1..Len(p) : s[i + j - 1] = p[j]

\* std::string::find(p) != std::string::npos
Find(s, p) == \E i \in 1..(Len(s) + 1) : OccursAt(s, p, i)

\* the position after the longest run of digits of s that starts at i
RECURSIVE DigitRunEnd(_, _)
DigitRunEnd(s, i) ==
    IF i <= Len(s) /\ IsDigit(s[i]) THEN DigitRunEnd(s, i + 1) ELSE i

\* std::stoi on a string of digits
RECURSIVE stoi(_)
stoi(d) ==
    IF d = <<>> THEN 0
    ELSE 10 * stoi(SubSeq(d, 1, Len(d) - 1)) + DigitVal(d[Len(d)])

\* std::to_string on a non-negative int
RECURSIVE to_string(_)
to_string(n) ==
    IF n < 10 THEN <<Digits[n + 1]>>
    ELSE to_string(n \div 10) \o <<Digits[(n % 10) + 1]>>

(***************************************************************************)
(* extractUniqueRPMs: std::regex_search with identifier + "_(\d+)_R\d+".   *)
(* The identifier is made of letters, so it matches itself.                *)
(***************************************************************************)
\* the pattern matches s at position i; \d+ is greedy and must be followed
\* by "_", which is no digit, so group 1 is the whole run of digits
MatchAt(s, identifier, i) ==
    LET j == i + Len(identifier) + 1
        e == DigitRunEnd(s, j)
    IN  /\ OccursAt(s, identifier \o <<"_">>, i)
        /\ e > j
        /\ OccursAt(s, <<"_", "R">>, e)
        /\ DigitRunEnd(s, e + 2) > e + 2

\* match[1].str() of the match at position i
Group1At(s, identifier, i) ==
    LET j == i + Len(identifier) + 1
    IN  SubSeq(s, j, DigitRunEnd(s, j) - 1)

\* std::regex_search(filename, match, pattern)
RegexSearch(s, identifier) == \E i \in 1..Len(s) : MatchAt(s, identifier, i)

\* regex_search reports the leftmost match only
FirstMatch(s, identifier) ==
    CHOOSE i \in 1..Len(s) :
        /\ MatchAt(s, identifier, i)
        /\ \A k \in 1..(i - 1) : ~MatchAt(s, identifier, k)

\* the elements of a finite set of integers in ascending order (iteration
\* order of std::set<int>)
RECURSIVE SetToSortedSeq(_)
SetToSortedSeq(S) ==
    IF S = {} THEN <<>>
    ELSE LET m == CHOOSE x \in S : \A y \in S : x <= y
         IN  <<m>> \o SetToSortedSeq(S \ {m})

RECURSIVE InsertRPMs(_, _, _)
InsertRPMs(names, identifier, acc) ==
    IF names = <<>> THEN acc
    ELSE LET f == Head(names)
             next == IF RegexSearch(f, identifier)
                     THEN acc \cup {stoi(Group1At(f, identifier, FirstMatch(f, identifier)))}
                     ELSE acc
         IN  InsertRPMs(Tail(names), identifier, next)

\* variant: the keys kept in a vector in the order of their first match,
\* not in a std::set
RECURSIVE KeysInListingOrder(_, _, _)
KeysInListingOrder(names, identifier, acc) ==
    IF names = <<>> THEN acc
    ELSE LET f == Head(names)
             k == stoi(Group1At(f, identifier, FirstMatch(f, identifier)))
             next == IF RegexSearch(f, identifier) /\ k \notin {acc[i] : i \in 1..Len(acc)}
                     THEN Append(acc, k)
                     ELSE acc
         IN  KeysInListingOrder(Tail(names), identifier, next)

extractUniqueRPMs_ListingOrder(names, identifier) ==
    KeysInListingOrder(names, identifier, <<>>)

extractUniqueRPMs(names, identifier) ==
    SetToSortedSeq(InsertRPMs(names, identifier, {}))

(***************************************************************************)
(* validateReplicates and the loader's filter.                             *)
(***************************************************************************)
\* identifier + "_" + std::to_string(rpm) + "_R"
GroupPrefix(identifier, rpm) ==
    identifier \o <<"_">> \o to_string(rpm) \o <<"_", "R">>

\* the filenames of the listing, in listing order, that contain the prefix
RECURSIVE SelectFiles(_, _, _)
SelectFiles(names, identifier, rpm) ==
    IF names = <<>> THEN <<>>
    ELSE (IF Find(Head(names), GroupPrefix(identifier, rpm))
          THEN <<Head(names)>> ELSE <<>>)
         \o SelectFiles(Tail(names), identifier, rpm)

ReplicateCount(names, identifier, rpm) ==
    Len(SelectFiles(names, identifier, rpm))

\* the index in rpms of the first group whose count is not 3, 0 when none
FirstInvalid(names, rpms, identifier) ==
    LET bad == {i \in 1..Len(rpms) : ReplicateCount(names, identifier, rpms[i]) # 3}
    IN  IF bad = {} THEN 0 ELSE CHOOSE i \in bad : \A j \in bad : i <= j

\* variant: only the first group's count is checked
validateReplicates_FirstGroupOnly(names, rpms, identifier) ==
    IF rpms = <<>> THEN TRUE
    ELSE ReplicateCount(names, identifier, rpms[1]) = 3

validateReplicates(names, rpms, identifier) ==
    FirstInvalid(names, rpms, identifier) = 0

(***************************************************************************)
(* Exact rational arithmetic for the values written to the CSV file.       *)
(***************************************************************************)
Abs(n) == IF n < 0 THEN -n ELSE n

RECURSIVE Gcd(_, _)
Gcd(a, b) == IF b = 0 THEN a ELSE Gcd(b, a % b)

\* n / d in lowest terms with a positive denominator (d # 0)
Rat(n, d) ==
    LET g == Gcd(Abs(n), Abs(d))
        s == IF d < 0 THEN -1 ELSE 1
    IN  <<(s * n) \div g, (s * d) \div g>>

RatAdd(p, q) == Rat(p[1] * q[2] + q[1] * p[2], p[2] * q[2])

RatSub(p, q) == Rat(p[1] * q[2] - q[1] * p[2], p[2] * q[2])

RatMulInt(p, k) == Rat(p[1] * k, p[2])

RatDivInt(p, k) == Rat(p[1], p[2] * k)

RatLess(p, q) == p[1] * q[2] < q[1] * p[2]

(***************************************************************************)
(* cv::Mat.  A Mat is a header over a pixel buffer: the buffer is the      *)
(* decoded (and blurred) file `file`, of cols0 x rows0 pixels, and the     *)
(* header shows the cols x rows pixels of it whose top-left one is the     *)
(* buffer's pixel (y0, x0).  Samples are num/den with den common to the    *)
(* buffer.  EmptyMat is what cv::imread returns for a file it cannot       *)
(* decode.                                                                 *)
(***************************************************************************)
EmptyMat == [empty |-> TRUE]

\* the pixels stored in the files, <<blue, green, red>>: a texture chosen by
\* `seed`.  Seed 0 is the constant image (1, 1, 1); seeds 1..9 draw from
\* Palette, which has pixels of zero and of negative luminance; seeds from 10
\* draw from SmoothPalette, whose pixels all have luminance 4, so that the
\* blurred samples keep small denominators.
Palette ==
    << <<0, 0, 0>>, <<2, 1, 0>>, <<1, 1, 1>>, <<0, 1, 3>>, <<-1, 1, 0>>, <<1, 0, -2>>, <<3, 0, 1>> >>

SmoothPalette ==
    << <<2, 1, 1>>, <<0, 1, 3>>, <<4, 0, 0>>, <<1, 3, 0>>, <<0, 0, 4>> >>

Texture(seed, y, x) ==
    IF seed = 0 THEN <<1, 1, 1>>
    ELSE IF seed < 10 THEN Palette[((seed + 2 * y + 3 * x) % Len(Palette)) + 1]
    ELSE SmoothPalette[((seed + 2 * y + 3 * x) % Len(SmoothPalette)) + 1]

\* cv::imread(path, cv::IMREAD_UNCHANGED) of a readable file
DecodedMat(file, cols, rows, seed, depth, channels) ==
    [empty |-> FALSE, file |-> file, seed |-> seed, blur |-> 0, den |-> 1,
     cols0 |-> cols, rows0 |-> rows, x0 |-> 0, y0 |-> 0,
     cols |-> cols, rows |-> rows, depth |-> depth, channels |-> channels]

\* cv::BORDER_REFLECT_101, the default border of cv::GaussianBlur
Reflect101(i, n) ==
    IF n = 1 THEN 0
    ELSE IF i < 0 THEN -i
    ELSE IF i >= n THEN 2 * n - 2 - i
    ELSE i

\* the 3-tap kernel cv::getGaussianKernel returns for ksize 3 and sigma 0:
\* {0.25, 0.5, 0.25}, here in quarters
KernelWeight(d) == IF d = 0 THEN 2 ELSE 1

\* sample c of buffer pixel (y, x), in units of 1/den
BufferSample(m, y, x, c) ==
    IF m.blur = 0 THEN Texture(m.seed, y, x)[c]
    ELSE LET offs == {-1, 0, 1}
             term(dy, dx) ==
                 KernelWeight(dy) * KernelWeight(dx)
                 * Texture(m.seed, Reflect101(y + dy, m.rows0), Reflect101(x + dx, m.cols0))[c]
             RECURSIVE Sum(_)
             Sum(S) == IF S = {} THEN 0
                       ELSE LET e == CHOOSE e \in S : TRUE
                            IN  term(e[1], e[2]) + Sum(S \ {e})
         IN  Sum(offs \X offs)

\* image.at<cv::Vec3f>(y, x) of a CV_32FC3 Mat: <<blue, green, red>> in units of 1/den
At(m, y, x) ==
    <<BufferSample(m, m.y0 + y, m.x0 + x, 1),
      BufferSample(m, m.y0 + y, m.x0 + x, 2),
      BufferSample(m, m.y0 + y, m.x0 + x, 3)>>

\* cv::GaussianBlur(image, image, cv::Size(2r+1, 2r+1), 0) for r = 1
GaussianBlur(m) == [m EXCEPT !.blur = 1, !.den = 16]

\* image(cv::Rect(x, y, width, height)): a header over the same buffer
Roi(m, x, y, width, height) ==
    [m EXCEPT !.x0 = m.x0 + x, !.y0 = m.y0 + y, !.cols = width, !.rows = height]

\* images[i].convertTo(saveImage, CV_32F): the same sample values as floats
ConvertTo32F(m) == [m EXCEPT !.depth = "32F"]

\* the smallest element of a non-empty sequence of integers
SeqMin(s) == CHOOSE v \in {s[i] : i \in 1..Len(s)} : \A i \in 1..Len(s) : v <= s[i]

\* variant: the crop keeps the right-hand columns
CropWidth_RightEdge(m, minCols) ==
    IF m.cols > minCols THEN Roi(m, m.cols - minCols, 0, minCols, m.rows) ELSE m

CropWidth(m, minCols) ==
    IF m.cols > minCols THEN Roi(m, 0, 0, minCols, m.rows) ELSE m

alignImageWidths(imgs) ==
    LET minCols == SeqMin([i \in 1..Len(imgs) |-> imgs[i].cols])
    IN  [i \in 1..Len(imgs) |-> CropWidth(imgs[i], minCols)]

CropHeight(m, minRows) ==
    IF m.rows > minRows THEN Roi(m, 0, 0, m.cols, minRows) ELSE m

alignImageHeights(imgs) ==
    LET minRows == SeqMin([i \in 1..Len(imgs) |-> imgs[i].rows])
    IN  [i \in 1..Len(imgs) |-> CropHeight(imgs[i], minRows)]

(***************************************************************************)
(* The column loop of processRPMImages.                                    *)
(***************************************************************************)
\* pixel[0], pixel[1], pixel[2] are blue, green, red
SelectedColor(pixel, channelChoice) ==
    CASE channelChoice = "R" -> pixel[3]
      [] channelChoice = "G" -> pixel[2]
      [] channelChoice = "B" -> pixel[1]

\* (luminance > 0) ? selectedColor / luminance : 0.0f
PixelRatio(pixel, channelChoice) ==
    LET luminance == pixel[3] + pixel[2] + pixel[1]
    IN  IF luminance > 0 THEN Rat(SelectedColor(pixel, channelChoice), luminance)
        ELSE <<0, 1>>

\* totalColor after rows 0..y-1 of column x
RECURSIVE TotalColor(_, _, _, _)
TotalColor(m, x, y, channelChoice) ==
    IF y = 0 THEN <<0, 1>>
    ELSE RatAdd(TotalColor(m, x, y - 1, channelChoice),
                PixelRatio(At(m, y - 1, x), channelChoice))

\* variant: the total is divided by the number of rows of positive luminance
AverageColor_SkipsZeroLuminance(m, x, rows, channelChoice) ==
    LET lit == Cardinality({y \in 0..(rows - 1) :
                   At(m, y, x)[1] + At(m, y, x)[2] + At(m, y, x)[3] > 0})
    IN  RatDivInt(TotalColor(m, x, rows, channelChoice), IF lit = 0 THEN rows ELSE lit)

\* averageColor = totalColor / rows
AverageColor(m, x, rows, channelChoice) ==
    RatDivInt(TotalColor(m, x, rows, channelChoice), rows)

\* variant: the last column is put on distanceLower
PixelWidth_Fencepost(distanceUpper, distanceLower, cols) ==
    Rat(distanceUpper - distanceLower, IF cols = 1 THEN 1 ELSE cols - 1)

\* pixelWidth = (distanceUpper - distanceLower) / cols
PixelWidth(distanceUpper, distanceLower, cols) ==
    Rat(distanceUpper - distanceLower, cols)

\* distanceUpper - x * pixelWidth
Distance(distanceUpper, distanceLower, cols, x) ==
    RatSub(<<distanceUpper, 1>>, RatMulInt(PixelWidth(distanceUpper, distanceLower, cols), x))

\* averageColorGroup / images.size()
GroupAverage(values) ==
    RatDivInt(RatAdd(RatAdd(values[1], values[2]), values[3]), Len(values))

\* one line of the CSV file: the distance, one value per image, their mean
CsvRow(imgs, x, cols, rows, distanceUpper, distanceLower, channelChoice) ==
    LET values == [i \in 1..Len(imgs) |-> AverageColor(imgs[i], x, rows, channelChoice)]
    IN  [distance |-> Distance(distanceUpper, distanceLower, cols, x),
         values |-> values,
         average |-> GroupAverage(values)]

\* the lines for x = 0 .. cols-1, cols and rows being those of images[0]
CsvRows(imgs, distanceUpper, distanceLower, channelChoice) ==
    LET cols == imgs[1].cols
        rows == imgs[1].rows
    IN  [k \in 1..cols |->
            CsvRow(imgs, k - 1, cols, rows, distanceUpper, distanceLower, channelChoice)]

ChannelName(channelChoice) ==
    CASE channelChoice = "R" -> "Redness"
      [] channelChoice = "G" -> "Greenness"
      [] channelChoice = "B" -> "Blueness"

(***************************************************************************)
(* The state of a run.                                                     *)
(***************************************************************************)
VARIABLES
    filenames,      \* getFilenames(folderPath): the listing, in directory order
    disk,           \* filename -> what cv::imread decodes from it (EmptyMat: unreadable)
    unwritable,     \* output paths that cannot be created: <<"img", rpm, i>>, <<"csv", rpm>>
    config,         \* identifier, distanceUpper, distanceLower, channelChoice, blurRadius
    pc,             \* where main() is
    exitCode,       \* <<v>> once main() returned v, <<>> while it runs
    uniqueRPMs,     \* main's uniqueRPMs
    gi,             \* position of the range-for over uniqueRPMs (1-based)
    images,         \* processRPMImages' images
    replicateNames, \* processRPMImages' replicateNames
    si,             \* the save loop's i + 1
    alignedFiles,   \* files written under <outputFolder>/aligned_images
    csvFiles,       \* CSV files written under <outputFolder>
    log             \* what went to std::cout / std::cerr, in order

vars == <<filenames, disk, unwritable, config, pc, exitCode, uniqueRPMs, gi,
          images, replicateNames, si, alignedFiles, csvFiles, log>>

env == <<filenames, disk, unwritable, config>>

(***************************************************************************)
(* Inputs.                                                                 *)
(***************************************************************************)
Range(s) == {s[i] : i \in 1..Len(s)}

IndexOf(s, e) == CHOOSE i \in 1..Len(s) : s[i] = e

\* <identifier>_<key>_R<replicate> for identifier "W"
FileName(key, replicate) == <<"W", "_">> \o key \o <<"_", "R">> \o replicate

NameUniverse ==
    << FileName(<<"1">>, <<"1">>),
       FileName(<<"1">>, <<"2">>),
       FileName(<<"1">>, <<"3">>),
       FileName(<<"2">>, <<"1">>),
       FileName(<<"1", "2">>, <<"1">>),
       FileName(<<"0", "1">>, <<"1">>),
       FileName(<<"0", "1">>, <<"2">>),
       FileName(<<"0", "1">>, <<"3">>),
       FileName(<<"1">>, <<>>),
       FileName(<<"1">>, <<"1", "0">>) \o <<".", "t">>,
       <<"X">> \o FileName(<<"1">>, <<"1">>) \o FileName(<<"2">>, <<"1">>) >>

\* the three replicates of group 1 and of group 2
Group1Names ==
    << FileName(<<"1">>, <<"1">>), FileName(<<"1">>, <<"2">>), FileName(<<"1">>, <<"3">>) >>

Group2Names ==
    << FileName(<<"2">>, <<"1">>), FileName(<<"2">>, <<"2">>), FileName(<<"2">>, <<"3">>) >>

Orders3 ==
    { <<1, 2, 3>>, <<1, 3, 2>>, <<2, 1, 3>>, <<2, 3, 1>>, <<3, 1, 2>>, <<3, 2, 1>> }

\* (distanceUpper, distanceLower) as the prompts accept them: lower < upper
DistanceBounds == { <<10, 0>>, <<3, -2>>, <<1, 0>> }

Channels == {"R", "G", "B"}

\* blur radii whose kernel the model computes
BlurRadii == {0, 1}

\* textures of the three files of a group
SeedTriples == { <<0, 0, 0>>, <<1, 2, 3>>, <<0, 4, 5>> }

\* textures of the three files of a group that is blurred
SmoothSeedTriples == { <<0, 0, 0>>, <<11, 12, 13>>, <<0, 14, 15>> }

DefaultConfig ==
    [identifier |-> <<"W">>, distanceUpper |-> 10, distanceLower |-> 0,
     channelChoice |-> "R", blurRadius |-> 0]


\* main() before extractUniqueRPMs, the configuration read and the folder listed
Start ==
    /\ pc = "extract"
    /\ exitCode = <<>>
    /\ uniqueRPMs = <<>>
    /\ gi = 0
    /\ images = <<>>
    /\ replicateNames = <<>>
    /\ si = 0
    /\ alignedFiles = {}
    /\ csvFiles = {}
    /\ log = <<>>

\* any files of NameUniverse in any order, every one a readable 1x1 image
InitNames ==
    /\ \E n \in 0..MaxFiles :
          \E idx \in [1..n -> 1..Len(NameUniverse)] :
              /\ \A i, j \in 1..n : idx[i] = idx[j] => i = j
              /\ filenames = [i \in 1..n |-> NameUniverse[idx[i]]]
    /\ disk = [f \in Range(filenames) |-> DecodedMat(f, 1, 1, 0, "32F", 3)]
    /\ unwritable = {}
    /\ config = DefaultConfig
    /\ Start

\* the files of two groups with any of them missing from the folder
InitMissing ==
    /\ \E S \in SUBSET (1..6) :
          LET idx == SetToSortedSeq(S)
          IN  filenames = [i \in 1..Len(idx) |-> (Group1Names \o Group2Names)[idx[i]]]
    /\ disk = [f \in Range(filenames) |-> DecodedMat(f, 1, 1, 0, "32F", 3)]
    /\ unwritable = {}
    /\ config = DefaultConfig
    /\ Start

\* one group listed in any order, blurred or not
InitOrders ==
    /\ \E o \in Orders3 : filenames = [i \in 1..3 |-> Group1Names[o[i]]]
    /\ \E b \in BlurRadii :
          /\ config = [DefaultConfig EXCEPT !.blurRadius = b]
          /\ disk = [f \in Range(Group1Names) |->
                        LET i == IndexOf(Group1Names, f)
                        IN  DecodedMat(f, i, 1 + (i % 2), IF b = 0 THEN i ELSE 10 + i,
                                       "32F", 3)]
    /\ unwritable = {}
    /\ Start

\* one group of images of any sizes
InitSizes ==
    /\ filenames = Group1Names
    /\ \E c \in [1..3 -> 1..MaxCols], r \in [1..3 -> 1..MaxRows] :
          disk = [f \in Range(Group1Names) |->
                    LET i == IndexOf(Group1Names, f)
                    IN  DecodedMat(f, c[i], r[i], i, "32F", 3)]
    /\ unwritable = {}
    /\ config = DefaultConfig
    /\ Start

\* one group of equally sized images, any texture and configuration
InitProfile ==
    /\ filenames = Group1Names
    /\ \E d \in DistanceBounds, ch \in Channels, b \in BlurRadii :
          /\ config = [identifier |-> <<"W">>, distanceUpper |-> d[1],
                       distanceLower |-> d[2], channelChoice |-> ch, blurRadius |-> b]
          /\ \E w \in 1..MaxWidth, h \in 1..MaxRows,
                 sd \in IF b = 0 THEN SeedTriples ELSE SmoothSeedTriples :
                disk = [f \in Range(Group1Names) |->
                          DecodedMat(f, w, h, sd[IndexOf(Group1Names, f)], "32F", 3)]
    /\ unwritable = {}
    /\ Start

\* two groups, any files unreadable or any output paths unwritable
InitFaults ==
    /\ filenames \in {Group1Names \o Group2Names, Group2Names \o Group1Names}
    /\ \E bad \in SUBSET Range(filenames), U \in SUBSET
              (({"img"} \X {1, 2} \X {1, 2, 3}) \cup ({"csv"} \X {1, 2})) :
          /\ bad = {} \/ U = {} \/ (Cardinality(bad) = 1 /\ Cardinality(U) = 1)
          /\ disk = [f \in Range(filenames) |->
                        IF f \in bad THEN EmptyMat
                        ELSE DecodedMat(f, 2, 1, IndexOf(filenames, f), "32F", 3)]
          /\ unwritable = U
    /\ config = DefaultConfig
    /\ Start

Init == InitNames \/ InitMissing \/ InitOrders \/ InitSizes \/ InitProfile \/ InitFaults

(***************************************************************************)
(* main() and processRPMImages, one action per step.                       *)
(***************************************************************************)
\* the group the range-for of main is at
CurrentRPM == uniqueRPMs[gi]

\* the locals of processRPMImages going out of scope and the range-for advancing
NextGroup ==
    /\ images' = <<>>
    /\ replicateNames' = <<>>
    /\ si' = 0
    /\ gi' = gi + 1
    /\ pc' = "loop"

\* main: uniqueRPMs = extractUniqueRPMs(filenames, identifier)
ExtractUniqueRPMs ==
    /\ pc = "extract"
    /\ uniqueRPMs' = extractUniqueRPMs(filenames, config.identifier)
    /\ pc' = "validate"
    /\ UNCHANGED <<env, exitCode, gi, images, replicateNames, si, alignedFiles, csvFiles, log>>

\* main: validateReplicates returned true
ValidateOk ==
    /\ pc = "validate"
    /\ validateReplicates(filenames, uniqueRPMs, config.identifier)
    /\ pc' = "loop"
    /\ gi' = 1
    /\ UNCHANGED <<env, exitCode, uniqueRPMs, images, replicateNames, si, alignedFiles,
                   csvFiles, log>>

\* main: validateReplicates reported the first bad group and returned false; return -1
ValidateAbort ==
    /\ pc = "validate"
    /\ ~validateReplicates(filenames, uniqueRPMs, config.identifier)
    /\ log' = Append(log, <<"not exactly 3 replicates",
                            uniqueRPMs[FirstInvalid(filenames, uniqueRPMs, config.identifier)]>>)
    /\ pc' = "aborted"
    /\ exitCode' = <<-1>>
    /\ UNCHANGED <<env, uniqueRPMs, gi, images, replicateNames, si, alignedFiles, csvFiles>>

\* what the load loop pushes for one selected file: nothing when imread returns
\* an empty Mat, else the image, blurred when blurRadius > 0
LoadImage(m, blurRadius) ==
    IF m.empty THEN <<>>
    ELSE IF blurRadius > 0 THEN <<GaussianBlur(m)>>
    ELSE <<m>>

\* the load loop over the selected files `sel`: <<images, replicateNames, messages>>
RECURSIVE LoadLoop(_, _, _)
LoadLoop(sel, files, blurRadius) ==
    IF sel = <<>> THEN << <<>>, <<>>, <<>> >>
    ELSE LET f == Head(sel)
             rest == LoadLoop(Tail(sel), files, blurRadius)
             got == LoadImage(files[f], blurRadius)
         IN  << got \o rest[1],
                (IF got = <<>> THEN <<>> ELSE <<f>>) \o rest[2],
                (IF got = <<>> THEN << <<"could not load image", f>> >> ELSE <<>>) \o rest[3] >>

\* processRPMImages is entered for the next group and runs its load loop
LoadImages ==
    /\ pc = "loop"
    /\ gi <= Len(uniqueRPMs)
    /\ LET loaded == LoadLoop(SelectFiles(filenames, config.identifier, CurrentRPM),
                              disk, config.blurRadius)
       IN  /\ images' = loaded[1]
           /\ replicateNames' = loaded[2]
           /\ log' = Append(log, <<"processing RPM", CurrentRPM>>) \o loaded[3]
    /\ pc' = "loaded"
    /\ UNCHANGED <<env, exitCode, uniqueRPMs, gi, si, alignedFiles, csvFiles>>

\* variant: a group with a wrong image count ends the run with -1
SkipGroup_EndsRun ==
    /\ pc = "loaded"
    /\ Len(images) # 3
    /\ log' = Append(log, <<"unexpected number of images", CurrentRPM, Len(images)>>)
    /\ pc' = "aborted"
    /\ exitCode' = <<-1>>
    /\ UNCHANGED <<env, uniqueRPMs, gi, images, replicateNames, si, alignedFiles, csvFiles>>

\* images.size() != 3: the error is reported and processRPMImages returns
SkipGroup ==
    /\ pc = "loaded"
    /\ Len(images) # 3
    /\ log' = Append(log, <<"unexpected number of images", CurrentRPM, Len(images)>>)
    /\ NextGroup
    /\ UNCHANGED <<env, exitCode, uniqueRPMs, alignedFiles, csvFiles>>

\* alignImageWidths(images); alignImageHeights(images)
AlignImages ==
    /\ pc = "loaded"
    /\ Len(images) = 3
    /\ images' = alignImageHeights(alignImageWidths(images))
    /\ si' = 1
    /\ pc' = "save"
    /\ UNCHANGED <<env, exitCode, uniqueRPMs, gi, replicateNames, alignedFiles, csvFiles, log>>

\* <identifier>_<rpm>_R<i+1>_<cols>x<rows>_aligned.tif with what is written to it
AlignedFile(rpm, i, m) ==
    [rpm |-> rpm, replicate |-> i, cols |-> m.cols, rows |-> m.rows,
     image |-> ConvertTo32F(m)]

\* variant: a failed cv::imwrite makes processRPMImages return
SaveAligned_ReturnsOnFailure ==
    /\ pc = "save"
    /\ IF <<"img", CurrentRPM, si>> \in unwritable
       THEN /\ log' = Append(log, <<"failed to save image", CurrentRPM, si>>)
            /\ NextGroup
            /\ UNCHANGED alignedFiles
       ELSE /\ alignedFiles' = alignedFiles \cup {AlignedFile(CurrentRPM, si, images[si])}
            /\ si' = si + 1
            /\ pc' = IF si = Len(images) THEN "csv" ELSE "save"
            /\ UNCHANGED <<log, gi, images, replicateNames>>
    /\ UNCHANGED <<env, exitCode, uniqueRPMs, csvFiles>>

\* one turn of the save loop: cv::imwrite of the converted image
SaveAligned ==
    /\ pc = "save"
    /\ IF <<"img", CurrentRPM, si>> \in unwritable
       THEN /\ log' = Append(log, <<"failed to save image", CurrentRPM, si>>)
            /\ UNCHANGED alignedFiles
       ELSE /\ alignedFiles' = alignedFiles \cup {AlignedFile(CurrentRPM, si, images[si])}
            /\ UNCHANGED log
    /\ si' = si + 1
    /\ pc' = IF si = Len(images) THEN "csv" ELSE "save"
    /\ UNCHANGED <<env, exitCode, uniqueRPMs, gi, images, replicateNames, csvFiles>>

\* csvFile.is_open() is false: the error is reported and processRPMImages returns
OpenCsvFail ==
    /\ pc = "csv"
    /\ <<"csv", CurrentRPM>> \in unwritable
    /\ log' = Append(log, <<"could not create CSV file", CurrentRPM>>)
    /\ NextGroup
    /\ UNCHANGED <<env, exitCode, uniqueRPMs, alignedFiles, csvFiles>>

\* the images the column loop reads are what at<cv::Vec3f> is defined for
ReadableAsVec3f(imgs) ==
    \A i \in 1..Len(imgs) : imgs[i].depth = "32F" /\ imgs[i].channels = 3

\* <identifier>_<rpm>_<channelChoice>ness.csv with its header and lines
CsvFile(rpm, channelChoice, rows) ==
    [rpm |-> rpm, channel |-> channelChoice,
     header |-> <<"Distance (cm)", ChannelName(channelChoice), "R1", "R2", "R3", "Average">>,
     rows |-> rows]

\* the CSV file is opened, the header and one line per column are written, it
\* is closed and processRPMImages returns
WriteCsv ==
    /\ pc = "csv"
    /\ <<"csv", CurrentRPM>> \notin unwritable
    /\ ReadableAsVec3f(images)
    /\ csvFiles' = csvFiles \cup
          {CsvFile(CurrentRPM, config.channelChoice,
                   CsvRows(images, config.distanceUpper, config.distanceLower,
                           config.channelChoice))}
    /\ log' = Append(log, <<"processed RPM", CurrentRPM>>)
    /\ NextGroup
    /\ UNCHANGED <<env, exitCode, uniqueRPMs, alignedFiles>>

\* main: the range-for is over; return 0
Finish ==
    /\ pc = "loop"
    /\ gi > Len(uniqueRPMs)
    /\ pc' = "done"
    /\ exitCode' = <<0>>
    /\ UNCHANGED <<env, uniqueRPMs, gi, images, replicateNames, si, alignedFiles, csvFiles, log>>

Next ==
    \/ ExtractUniqueRPMs
    \/ ValidateOk
    \/ ValidateAbort
    \/ LoadImages
    \/ SkipGroup
    \/ AlignImages
    \/ SaveAligned
    \/ OpenCsvFail
    \/ WriteCsv
    \/ Finish

Spec == Init /\ [][Next]_vars

(***************************************************************************)
(* Definitions shared by the properties.                                   *)
(***************************************************************************)
\* the images processRPMImages loads for group rpm, in load order
GroupSources(rpm) ==
    LoadLoop(SelectFiles(filenames, config.identifier, rpm), disk, config.blurRadius)[1]

\* the filenames those images were loaded from
GroupSourceNames(rpm) ==
    LoadLoop(SelectFiles(filenames, config.identifier, rpm), disk, config.blurRadius)[2]

Logged(msg) == \E i \in 1..Len(log) : log[i] = msg

\* processRPMImages was entered for some group
AnyGroupEntered == \E i \in 1..Len(log) : log[i][1] = "processing RPM"

IsMinOf(v, S) == v \in S /\ \A w \in S : v <= w

RatEq(p, q) == p[1] * q[2] = q[1] * p[2]

(***************************************************************************)
(* C1.  Validation is run-global and precedes all processing: when some    *)
(* extracted group key has a replicate count other than 3, main returns -1 *)
(* without entering processRPMImages for any key, also not for the keys    *)
(* whose count is 3, and no aligned image and no CSV file is written.      *)
(***************************************************************************)
C1_SomeCountNot3 ==
    \E i \in 1..Len(uniqueRPMs) :
        Cardinality({j \in 1..Len(filenames) :
            Find(filenames[j], GroupPrefix(config.identifier, uniqueRPMs[i]))}) # 3

C1_ValidationIsRunGlobal ==
    (pc # "extract" /\ C1_SomeCountNot3) =>
        /\ pc \in {"validate", "aborted"}
        /\ pc = "aborted" => exitCode = <<-1>>
        /\ exitCode # <<0>>
        /\ ~AnyGroupEntered
        /\ alignedFiles = {}
        /\ csvFiles = {}

\* the run was aborted although one of the groups has exactly 3 replicates
C1_Witness ==
    /\ pc = "aborted"
    /\ exitCode = <<-1>>
    /\ Len(uniqueRPMs) >= 2
    /\ \E i \in 1..Len(uniqueRPMs) :
          ReplicateCount(filenames, config.identifier, uniqueRPMs[i]) = 3

(***************************************************************************)
(* C3.  After alignImageWidths and alignImageHeights the three images have *)
(* the smallest of the loaded widths and the smallest of the loaded        *)
(* heights, and each is the top-left sub-rectangle of its own loaded image.*)
(***************************************************************************)
C3_AlignedIsTopLeftMin ==
    pc \in {"save", "csv"} =>
        LET src == GroupSources(CurrentRPM)
        IN  /\ Len(images) = 3
            /\ Len(src) = 3
            /\ \A i \in 1..3 :
                  /\ IsMinOf(images[i].cols, {src[j].cols : j \in 1..3})
                  /\ IsMinOf(images[i].rows, {src[j].rows : j \in 1..3})
                  /\ images[i].cols > 0
                  /\ images[i].rows > 0
                  /\ images[i].file = src[i].file
                  /\ \A y \in 0..(images[i].rows - 1), x \in 0..(images[i].cols - 1) :
                        At(images[i], y, x) = At(src[i], y, x)

\* three different widths, and the smallest height not on the narrowest image
C3_Witness ==
    /\ pc = "save"
    /\ LET src == GroupSources(CurrentRPM)
       IN  /\ Cardinality({src[j].cols : j \in 1..3}) = 3
           /\ Cardinality({src[j].rows : j \in 1..3}) = 3
           /\ \E i, j \in 1..3 :
                 /\ i # j
                 /\ IsMinOf(src[i].cols, {src[k].cols : k \in 1..3})
                 /\ IsMinOf(src[j].rows, {src[k].rows : k \in 1..3})
           /\ \E i \in 1..3 : images[i].cols < src[i].cols /\ images[i].rows < src[i].rows

(***************************************************************************)
(* C4.  extractUniqueRPMs returns key k exactly when some filename         *)
(* contains a substring of the shape <identifier>_<k>_R<digits>, every key *)
(* once, in strictly ascending order, which is the order in which main     *)
(* processes the groups.                                                   *)
(***************************************************************************)
\* s[i..b] is identifier, "_", the digits s[j..a], "_R", the digits s[a+3..b],
\* where j = i + Len(identifier) + 1
C4_ShapeEnds(s, j, a) ==
    /\ \A k \in j..a : IsDigit(s[k])
    /\ OccursAt(s, <<"_", "R">>, a + 1)
    /\ \E b \in (a + 3)..Len(s) : \A k \in (a + 3)..b : IsDigit(s[k])

\* the positions at which a substring of the shape starts, with its key
C4_Shapes(s, identifier) ==
    UNION { LET j == i + Len(identifier) + 1
            IN  { <<i, stoi(SubSeq(s, j, a))>> :
                    a \in { a \in j..Len(s) : C4_ShapeEnds(s, j, a) } } :
            i \in { i \in 1..Len(s) : OccursAt(s, identifier \o <<"_">>, i) } }

\* the keys of all the substrings of the shape in the listing
C4_AllKeys ==
    UNION { { t[2] : t \in C4_Shapes(filenames[n], config.identifier) } :
            n \in 1..Len(filenames) }

\* the keys of the leftmost substring of the shape of each filename
C4_LeftmostKeys ==
    UNION { { t[2] : t \in { u \in C4_Shapes(filenames[n], config.identifier) :
                               \A v \in C4_Shapes(filenames[n], config.identifier) :
                                   u[1] <= v[1] } } :
            n \in 1..Len(filenames) }

\* the keys for which processRPMImages was entered, in order
RECURSIVE EnteredKeys(_)
EnteredKeys(l) ==
    IF l = <<>> THEN <<>>
    ELSE (IF Head(l)[1] = "processing RPM" THEN <<Head(l)[2]>> ELSE <<>>)
         \o EnteredKeys(Tail(l))

C4_AscendingAndProcessedInOrder ==
    /\ \A i, j \in 1..Len(uniqueRPMs) : i < j => uniqueRPMs[i] < uniqueRPMs[j]
    /\ LET e == EnteredKeys(log)
       IN  /\ Len(e) <= Len(uniqueRPMs)
           /\ \A i \in 1..Len(e) : e[i] = uniqueRPMs[i]
    /\ pc = "done" => Len(EnteredKeys(log)) = Len(uniqueRPMs)

C10_CountedFor(s, k) == Find(s, GroupPrefix(config.identifier, k))

C10_Original ==
    /\ \A n \in 1..Len(filenames) :
          \A t \in C4_Shapes(filenames[n], config.identifier) :
              (\A v \in C4_Shapes(filenames[n], config.identifier) : t[1] <= v[1])
                  => C10_CountedFor(filenames[n], t[2])
    /\ pc = "aborted" =>
          \E k \in C4_LeftmostKeys :
              Cardinality({n \in 1..Len(filenames) :
                  \E t \in C4_Shapes(filenames[n], config.identifier) : t[2] = k}) # 3

(***************************************************************************)
(* C8.  Replicate identity: for a processed group whose three source       *)
(* filenames carry the replicate indices 1, 2 and 3, in whatever order the *)
(* listing returns them, the aligned image saved as ..._R<i>_... and the   *)
(* CSV column R<i> hold the data of the file whose name carries index i.   *)
(***************************************************************************)
\* filename s carries replicate index i of group rpm
C8_Carries(s, rpm, i) ==
    \E n \in 1..Len(s) :
        LET p == GroupPrefix(config.identifier, rpm) \o to_string(i)
        IN  /\ OccursAt(s, p, n)
            /\ (n + Len(p) > Len(s) \/ ~IsDigit(s[n + Len(p)]))

\* the three loaded files of group rpm carry the indices 1, 2, 3
C8_HasIndices123(rpm) ==
    LET names == GroupSourceNames(rpm)
    IN  /\ Len(names) = 3
        /\ \A i \in 1..3 : \E n \in 1..3 : C8_Carries(names[n], rpm, i)

C8_Original ==
    /\ \A a \in alignedFiles :
          C8_HasIndices123(a.rpm) => C8_Carries(a.image.file, a.rpm, a.replicate)
    /\ \A c \in csvFiles :
          C8_HasIndices123(c.rpm) =>
              \A i \in 1..3 :
                  C8_Carries(GroupSourceNames(c.rpm)[i], c.rpm, i)

(***************************************************************************)
(* C5.  For every column x of an aligned group of W x H images, the value  *)
(* written for each image is the sum over all H rows of the per-pixel      *)
(* ratio, divided by H; the ratio is selected/(c0+c1+c2) when c0+c1+c2 > 0 *)
(* and 0 otherwise (selected: c0 for B, c1 for G, c2 for R); pixels of     *)
(* zero luminance stay in the denominator H; the average is the sum of the *)
(* three values divided by 3.  With H = 1 and every pixel (1, 1, 1) all    *)
(* four values are 1/3.                                                    *)
(***************************************************************************)
\* pixel (y, x) of the i-th image of the aligned group of rpm: the top-left
\* region of the i-th loaded image
C5_Pixel(rpm, i, y, x) == At(GroupSources(rpm)[i], y, x)

C5_Selected(c, channel) ==
    IF channel = "B" THEN c[1] ELSE IF channel = "G" THEN c[2] ELSE c[3]

\* the sum over rows 0..h-1 of the ratios of column x, in lowest terms
RECURSIVE C5_RatioSum(_, _, _, _, _)
C5_RatioSum(rpm, i, x, h, channel) ==
    IF h = 0 THEN <<0, 1>>
    ELSE LET c == C5_Pixel(rpm, i, h - 1, x)
             lum == c[1] + c[2] + c[3]
             prev == C5_RatioSum(rpm, i, x, h - 1, channel)
         IN  IF lum > 0
             THEN Rat(prev[1] * lum + C5_Selected(c, channel) * prev[2], prev[2] * lum)
             ELSE prev

C5_H(rpm) == SeqMin([i \in 1..3 |-> GroupSources(rpm)[i].rows])

C5_ColumnValuesAreRowMeans ==
    \A f \in csvFiles :
        \A k \in 1..Len(f.rows) :
            LET h == C5_H(f.rpm)
                row == f.rows[k]
            IN  /\ \A i \in 1..3 :
                      LET sum == C5_RatioSum(f.rpm, i, k - 1, h, f.channel)
                      IN  row.values[i][1] * sum[2] * h = sum[1] * row.values[i][2]
                /\ RatMulInt(row.average, 3) =
                      RatAdd(row.values[1], RatAdd(row.values[2], row.values[3]))
                /\ (h = 1 /\ \A i \in 1..3 : C5_Pixel(f.rpm, i, 0, k - 1) = <<1, 1, 1>>) =>
                      /\ row.values = << <<1, 3>>, <<1, 3>>, <<1, 3>> >>
                      /\ row.average = <<1, 3>>

\* a CSV line for a column that holds a pixel of zero luminance and a pixel
\* with a non-zero ratio, and a line of a one-row group of pixels (1, 1, 1)
C5_Witness ==
    \E f \in csvFiles :
        /\ \E k \in 1..Len(f.rows) :
              /\ C5_H(f.rpm) >= 2
              /\ \E y \in 0..(C5_H(f.rpm) - 1) : C5_Pixel(f.rpm, 1, y, k - 1) = <<0, 0, 0>>
              /\ f.rows[k].values[1][1] # 0
        /\ \A i \in 1..3 : GroupSources(f.rpm)[i].seed # 0

\* a CSV line of a one-row group whose pixels are all (1, 1, 1)
C5_UnitWitness ==
    \E f \in csvFiles :
        /\ C5_H(f.rpm) = 1
        /\ Len(f.rows) >= 2
        /\ \A k \in 1..Len(f.rows) :
              /\ \A i \in 1..3 : C5_Pixel(f.rpm, i, 0, k - 1) = <<1, 1, 1>>
              /\ f.rows[k].average = <<1, 3>>

(***************************************************************************)
(* C6.  Distance mapping: the CSV file of a group of width W > 0 has       *)
(* exactly W lines, in ascending column order; the line of column x        *)
(* carries distanceUpper - x * (distanceUpper - distanceLower) / W, so     *)
(* column 0 maps to distanceUpper, the distances strictly decrease and the *)
(* last one is strictly greater than distanceLower.                        *)
(***************************************************************************)
C6_W(rpm) == SeqMin([i \in 1..3 |-> GroupSources(rpm)[i].cols])

C6_DistanceMapping ==
    \A f \in csvFiles :
        LET w == C6_W(f.rpm)
            up == config.distanceUpper
            lo == config.distanceLower
        IN  /\ w > 0
            /\ up > lo
            /\ Len(f.rows) = w
            /\ \A k \in 1..w :
                  LET d == f.rows[k].distance
                  IN  /\ d[2] > 0
                      /\ d[1] * w = d[2] * (up * w - (k - 1) * (up - lo))
            /\ f.rows[1].distance = <<up, 1>>
            /\ \A k \in 1..(w - 1) : RatLess(f.rows[k + 1].distance, f.rows[k].distance)
            /\ RatLess(<<lo, 1>>, f.rows[w].distance)

\* bounds 10 and 0 with W = 5: column 0 is at 10 and column 4 at 2
C6_Witness ==
    \E f \in csvFiles :
        /\ config.distanceUpper = 10
        /\ config.distanceLower = 0
        /\ Len(f.rows) = 5
        /\ f.rows[1].distance = <<10, 1>>
        /\ f.rows[5].distance = <<2, 1>>

(***************************************************************************)
(* Outputs of one group.                                                   *)
(***************************************************************************)
AlignedOf(rpm) == {a \in alignedFiles : a.rpm = rpm}

CsvOf(rpm) == {f \in csvFiles : f.rpm = rpm}

\* processRPMImages was entered for rpm and has returned
GroupReturned(rpm) ==
    \E i \in 1..Len(uniqueRPMs) : uniqueRPMs[i] = rpm /\ i < gi

\* the number of files of group rpm that cv::imread decodes
LoadedCount(rpm) ==
    Cardinality({n \in 1..Len(filenames) :
        /\ Find(filenames[n], GroupPrefix(config.identifier, rpm))
        /\ ~disk[filenames[n]].empty})

(***************************************************************************)
(* C2.  Group-local failure isolation: after validation passed, a file of  *)
(* group k that fails to decode makes group k be skipped, with no aligned  *)
(* image and no CSV file for k, while every other group is still processed *)
(* and its outputs are those it has without the failure, that is, they     *)
(* are determined by its own three files; a group is skipped exactly when  *)
(* its loaded image count is not 3.                                        *)
(***************************************************************************)
\* the outputs of a group whose three files decode, computed from those files alone
C2_OwnAligned(rpm) ==
    LET src == GroupSources(rpm)
        w == SeqMin([i \in 1..3 |-> src[i].cols])
        h == SeqMin([i \in 1..3 |-> src[i].rows])
    IN  { [rpm |-> rpm, replicate |-> i, cols |-> w, rows |-> h,
           image |-> [src[i] EXCEPT !.cols = w, !.rows = h]] :
          i \in {i \in 1..3 : <<"img", rpm, i>> \notin unwritable} }

C2_Skipped(rpm) == \E n \in 0..Len(filenames) : Logged(<<"unexpected number of images", rpm, n>>)

C2_FailureIsGroupLocal ==
    /\ \A i \in 1..Len(uniqueRPMs) :
          LET rpm == uniqueRPMs[i]
          IN  GroupReturned(rpm) =>
                /\ C2_Skipped(rpm) <=> LoadedCount(rpm) # 3
                /\ LoadedCount(rpm) # 3 => AlignedOf(rpm) = {} /\ CsvOf(rpm) = {}
                /\ LoadedCount(rpm) = 3 =>
                      /\ AlignedOf(rpm) = C2_OwnAligned(rpm)
                      /\ <<"csv", rpm>> \notin unwritable =>
                            /\ Cardinality(CsvOf(rpm)) = 1
                            /\ \A f \in CsvOf(rpm) :
                                  /\ Len(f.rows) = C6_W(rpm)
                                  /\ \A k \in 1..Len(f.rows), j \in 1..3 :
                                        LET sum == C5_RatioSum(rpm, j, k - 1, C5_H(rpm), f.channel)
                                        IN  f.rows[k].values[j][1] * sum[2] * C5_H(rpm)
                                               = sum[1] * f.rows[k].values[j][2]
    /\ pc = "done" => \A i \in 1..Len(uniqueRPMs) : GroupReturned(uniqueRPMs[i])
    /\ (pc \notin {"extract", "validate", "aborted"}) => exitCode \in {<<>>, <<0>>}
    /\ (pc = "aborted") => ~AnyGroupEntered

\* the run ended with one group skipped for one unreadable file and the
\* other group, processed after it, with its three images and its CSV file
C2_Witness ==
    /\ pc = "done"
    /\ exitCode = <<0>>
    /\ Len(uniqueRPMs) = 2
    /\ LoadedCount(uniqueRPMs[1]) = 2
    /\ C2_Skipped(uniqueRPMs[1])
    /\ Cardinality(AlignedOf(uniqueRPMs[2])) = 3
    /\ Cardinality(CsvOf(uniqueRPMs[2])) = 1

(***************************************************************************)
(* C7.  Artifact-write failures are group-local and non-blocking: a failed *)
(* save of aligned image i is reported, the other aligned images of the    *)
(* group are still saved and the CSV file is still written in full; when   *)
(* the CSV file cannot be opened, no header and no line is written for the *)
(* group and the run continues with the next group key.                    *)
(***************************************************************************)
C7_WriteFailuresAreLocal ==
    /\ \A g \in 1..Len(uniqueRPMs) :
          LET rpm == uniqueRPMs[g]
          IN  (GroupReturned(rpm) /\ LoadedCount(rpm) = 3) =>
                /\ \A i \in 1..3 :
                      IF <<"img", rpm, i>> \in unwritable
                      THEN /\ Logged(<<"failed to save image", rpm, i>>)
                           /\ ~\E a \in AlignedOf(rpm) : a.replicate = i
                      ELSE \E a \in AlignedOf(rpm) : a.replicate = i
                /\ IF <<"csv", rpm>> \in unwritable
                   THEN /\ Logged(<<"could not create CSV file", rpm>>)
                        /\ CsvOf(rpm) = {}
                   ELSE \E f \in CsvOf(rpm) :
                           /\ Len(f.header) = 6
                           /\ Len(f.rows) = C6_W(rpm)
    /\ pc = "done" => \A i \in 1..Len(uniqueRPMs) : GroupReturned(uniqueRPMs[i])
    /\ (\E i \in 1..Len(log) : log[i][1] \in {"failed to save image", "could not create CSV file"})
          => exitCode \in {<<>>, <<0>>}

\* the run ended; the first group's CSV file could not be opened; the second
\* group's first image could not be saved, its other two images and its CSV
\* file were written
C7_Witness ==
    /\ pc = "done"
    /\ exitCode = <<0>>
    /\ Len(uniqueRPMs) = 2
    /\ <<"csv", uniqueRPMs[1]>> \in unwritable
    /\ CsvOf(uniqueRPMs[1]) = {}
    /\ <<"img", uniqueRPMs[2], 1>> \in unwritable
    /\ {a.replicate : a \in AlignedOf(uniqueRPMs[2])} = {2, 3}
    /\ \E f \in CsvOf(uniqueRPMs[2]) : Len(f.rows) = 2

(***************************************************************************)
(* Inputs of any sample type.  cv::imread with IMREAD_UNCHANGED keeps the  *)
(* file's depth and channel count, and the column loop reads images[i]     *)
(* with at<cv::Vec3f>, which is defined for CV_32FC3 only.  On any other   *)
(* type the read is undefined: a build with OpenCV's debug assertions      *)
(* stops at the first read, other builds go on with whatever the bytes at  *)
(* the computed address are.  Spec covers the runs on 3-channel float      *)
(* images; SpecAnyType adds the others.                                    *)
(***************************************************************************)
Depths == {"8U", "32F"}

ChannelCounts == {1, 3, 4}

\* values a misread column can produce; any value can come out, two stand for them
GarbageValues == { <<0, 1>>, <<1, 2>> }

\* one group of three images of any depths and channel counts
InitTyped ==
    /\ filenames = Group1Names
    /\ \E d \in [1..3 -> Depths], c \in [1..3 -> ChannelCounts] :
          disk = [f \in Range(Group1Names) |->
                    LET i == IndexOf(Group1Names, f)
                    IN  DecodedMat(f, 2, 1, i, d[i], c[i])]
    /\ unwritable = {}
    /\ config = DefaultConfig
    /\ Start

\* the column loop on images that are not CV_32FC3, stopped by the assertion
\* of cv::Mat::at at its first read: the CSV file is left with no line
ProfileAsserts ==
    /\ pc = "csv"
    /\ <<"csv", CurrentRPM>> \notin unwritable
    /\ ~ReadableAsVec3f(images)
    /\ csvFiles' = csvFiles \cup {CsvFile(CurrentRPM, config.channelChoice, <<>>)}
    /\ pc' = "crashed"
    /\ UNCHANGED <<env, exitCode, uniqueRPMs, gi, images, replicateNames, si, alignedFiles, log>>

\* the column loop on images that are not CV_32FC3, reading what it finds
ProfileMisreads ==
    /\ pc = "csv"
    /\ <<"csv", CurrentRPM>> \notin unwritable
    /\ ~ReadableAsVec3f(images)
    /\ \E g \in [1..3 -> GarbageValues] :
          csvFiles' = csvFiles \cup
             {CsvFile(CurrentRPM, config.channelChoice,
                      [k \in 1..images[1].cols |->
                          [distance |-> Distance(config.distanceUpper, config.distanceLower,
                                                 images[1].cols, k - 1),
                           values |-> g,
                           average |-> GroupAverage(g)]])}
    /\ log' = Append(log, <<"processed RPM", CurrentRPM>>)
    /\ NextGroup
    /\ UNCHANGED <<env, exitCode, uniqueRPMs, alignedFiles>>

InitAnyType == Init \/ InitTyped

NextAnyType == Next \/ ProfileAsserts \/ ProfileMisreads

SpecAnyType == InitAnyType /\ [][NextAnyType]_vars

(***************************************************************************)
(* C9.  Every image the column loop reads pixels from is a 3-channel image *)
(* of floating-point samples: whatever the sample type of the decoded      *)
(* files, the images read are the float-converted aligned images, the ones *)
(* persisted as the aligned images.                                        *)
(***************************************************************************)
C9_Original ==
    pc = "csv" =>
        \A i \in 1..Len(images) :
            /\ images[i].depth = "32F"
            /\ images[i].channels = 3
            /\ images[i] = ConvertTo32F(images[i])
            /\ \A a \in AlignedOf(CurrentRPM) : a.replicate = i => a.image = images[i]

====
